---------------------------- MODULE Spec2Model ----------------------------
(***************************************************************************)
(* One run of the Solar Tracker Analytics dashboard script (src/app.py):   *)
(* load_all_data, the sidebar selections, filter_and_resample, the        *)
(* summary metrics and the metric widgets.                                 *)
(*                                                                         *)
(* Numbers are exact rationals <<n, d>> with d > 0; the float NaN is the   *)
(* pair <<0, 0>>.  Timestamps are integer ticks since midnight UTC of day  *)
(* 0.  The sample clock (pandas datetime64[ns]) is finer than the clock of *)
(* datetime.max.time() (microseconds): a microsecond is TicksPerMicro      *)
(* ticks.                                                                  *)
(***************************************************************************)
EXTENDS Integers, Sequences, FiniteSets

VARIABLES source, pc, df_raw, cfg, df, metrics, widgets, message

vars == <<source, pc, df_raw, cfg, df, metrics, widgets, message>>

---------------------------------------------------------------------------
(* Bounds of the model *)

\* rows in a source
MaxRows == 2
\* days 0..MaxDay carry samples
MaxDay == 1
\* ticks of the sample clock in one microsecond (1000 for nanoseconds)
TicksPerMicro == 2
\* microseconds in one minute (60,000,000), compressed
MicrosPerMinute == 2

MinuteTicks == MicrosPerMinute * TicksPerMicro
MinutesPerDay == 24 * 60
DayTicks == MinutesPerDay * MinuteTicks

---------------------------------------------------------------------------
(* Exact arithmetic standing for Python floats *)

NaN == <<0, 0>>

RECURSIVE Gcd(_, _)
Gcd(a, b) == IF b = 0 THEN a ELSE Gcd(b, a % b)

Abs(n) == IF n < 0 THEN -n ELSE n

Norm(n, d) ==
    LET s == IF d < 0 THEN -1 ELSE 1
        g == Gcd(Abs(n), Abs(d))
    IN  <<(s * n) \div g, (s * d) \div g>>

R(n) == <<n, 1>>
RZero == R(0)
RAdd(x, y) == Norm(x[1] * y[2] + y[1] * x[2], x[2] * y[2])
RSub(x, y) == Norm(x[1] * y[2] - y[1] * x[2], x[2] * y[2])
RMul(x, y) == Norm(x[1] * y[1], x[2] * y[2])
\* only ever applied with y # 0
RDiv(x, y) == Norm(x[1] * y[2], x[2] * y[1])
\* comparisons with NaN are False, as for floats
RGt(x, y) == x # NaN /\ y # NaN /\ x[1] * y[2] > y[1] * x[2]
RMax2(x, y) == IF RGt(y, x) THEN y ELSE x

isfinite(x) == x # NaN

RECURSIVE Pow10(_)
Pow10(k) == IF k = 0 THEN 1 ELSE 10 * Pow10(k - 1)

\* f"{x:.<digits>f}": x rounded to digits decimals, ties to even
FormatFixed(x, digits) ==
    LET n == x[1] * Pow10(digits)
        d == x[2]
        q == n \div d
        r == n % d
        up == 2 * r > d \/ (2 * r = d /\ q % 2 = 1)
    IN  [na |-> FALSE, scaled |-> IF up THEN q + 1 ELSE q, digits |-> digits]

NotAvailable == [na |-> TRUE, scaled |-> 0, digits |-> 0]

---------------------------------------------------------------------------
(* Data frames: [cols |-> set of column names, rows |-> sequence of        *)
(* records over cols]                                                      *)

NumericCols == {"dc_power", "irradiance_wm2", "dc_voltage", "dc_current"}
\* a timestamp that to_datetime(errors="coerce") cannot parse
NaT == -1
\* the missing value of an object column
NoneStr == "<NA>"

IsNull(c, v) == IF c \in NumericCols THEN v = NaN ELSE v = NoneStr

EmptyFrame == [cols |-> {}, rows |-> <<>>]

RECURSIVE SeqSum(_)
SeqSum(s) == IF s = <<>> THEN RZero ELSE RAdd(Head(s), SeqSum(Tail(s)))

RECURSIVE SeqMax(_)
SeqMax(s) == IF Len(s) = 1 THEN s[1] ELSE RMax2(s[1], SeqMax(Tail(s)))


---------------------------------------------------------------------------
(* load_all_data *)

\* pd.to_datetime(..., utc=True, errors="coerce"): an instant, or NaT
to_datetime(v) == IF v >= 0 THEN v ELSE NaT

\* astype(str): a missing site becomes the string "nan"
astype_str(v) == IF v = NoneStr THEN "nan" ELSE v

\* "ts_utc" not in df.columns raises ValueError
HasTimestampColumn(cols) == "ts_utc" \in cols

NormalizeRow(r) ==
    [c \in DOMAIN r |->
        IF c = "ts_utc" THEN to_datetime(r[c])
        ELSE IF c = "site_id" THEN astype_str(r[c])
        ELSE r[c]]

\* a loader that maps the first timestamp alias found to ts_utc
load_all_data_aliases(src) ==
    LET found == src.cols \cap {"ts_utc", "ts", "timestamp", "time"}
        a == IF "ts_utc" \in found THEN "ts_utc"
             ELSE IF "ts" \in found THEN "ts"
             ELSE IF "timestamp" \in found THEN "timestamp"
             ELSE "time"
        cols == (src.cols \ {a}) \cup {"ts_utc"}
        renamed == [i \in 1..Len(src.rows) |->
                      [c \in cols |-> IF c = "ts_utc" THEN src.rows[i][a]
                                      ELSE src.rows[i][c]]]
        parsed == [i \in 1..Len(renamed) |-> NormalizeRow(renamed[i])]
        kept == SelectSeq(parsed, LAMBDA r : r.ts_utc # NaT)
    IN  IF ~src.available
        THEN [ok |-> FALSE, error |-> "SourceUnavailable", df |-> EmptyFrame]
        ELSE IF found = {}
        THEN [ok |-> FALSE, error |-> "ValueError: ts_utc", df |-> EmptyFrame]
        ELSE [ok |-> TRUE, error |-> "", df |-> [cols |-> cols, rows |-> kept]]

load_all_data(src) ==
    IF ~src.available
    THEN [ok |-> FALSE, error |-> "SourceUnavailable", df |-> EmptyFrame]
    ELSE IF ~HasTimestampColumn(src.cols)
    THEN [ok |-> FALSE, error |-> "ValueError: ts_utc", df |-> EmptyFrame]
    ELSE LET parsed == [i \in 1..Len(src.rows) |-> NormalizeRow(src.rows[i])]
             kept == SelectSeq(parsed, LAMBDA r : r.ts_utc # NaT)
         IN  [ok |-> TRUE, error |-> "", df |-> [cols |-> src.cols, rows |-> kept]]

---------------------------------------------------------------------------
(* filter_and_resample *)

\* the site filter of lines 63-64
SiteMatches(d, r, site_id) ==
    ("site_id" \in d.cols /\ site_id # "") => r.site_id = site_id

\* the mask of line 67
InWindow(t, start_dt, end_dt) == t >= start_dt /\ t <= end_dt

FilterRows(d, site_id, start_dt, end_dt) ==
    SelectSeq(d.rows, LAMBDA r : SiteMatches(d, r, site_id)
                                /\ InWindow(r.ts_utc, start_dt, end_dt))

\* sort_values("ts_utc"): ascending, rows of equal timestamp keep their order
RECURSIVE InsertSorted(_, _)
InsertSorted(s, r) ==
    IF s = <<>> THEN <<r>>
    ELSE IF s[Len(s)].ts_utc <= r.ts_utc THEN Append(s, r)
    ELSE Append(InsertSorted(SubSeq(s, 1, Len(s) - 1), r), s[Len(s)])

RECURSIVE sort_values(_)
sort_values(s) ==
    IF s = <<>> THEN <<>>
    ELSE InsertSorted(sort_values(SubSeq(s, 1, Len(s) - 1)), s[Len(s)])

ResampleOriginStart(rows) == rows[1].ts_utc

\* resample's default origin "start_day": midnight of the first timestamp's day
ResampleOrigin(rows) == (rows[1].ts_utc \div DayTicks) * DayTicks

Present(in, c) == SelectSeq(in, LAMBDA r : ~IsNull(c, r[c]))

AggSum(in, c) ==
    LET p == Present(in, c)
    IN  IF p = <<>> THEN NaN ELSE SeqSum([i \in 1..Len(p) |-> p[i][c]])

\* "mean": the mean of the non-null values, NaN when there is none
AggMean(in, c) ==
    LET p == Present(in, c)
    IN  IF p = <<>> THEN NaN
        ELSE RDiv(SeqSum([i \in 1..Len(p) |-> p[i][c]]), R(Len(p)))

\* "first": the first non-null value, None when there is none
AggFirst(in, c) ==
    LET p == Present(in, c)
    IN  IF p = <<>> THEN NoneStr ELSE p[1][c]

\* agg_cols of lines 78-82 applied to the rows of one bin [b, b + w)
AggRow(rows, cols, b, w) ==
    LET in == SelectSeq(rows, LAMBDA r : r.ts_utc >= b /\ r.ts_utc < b + w)
    IN  [c \in cols |->
            IF c = "ts_utc" THEN b
            ELSE IF c \in NumericCols THEN AggMean(in, c)
            ELSE AggFirst(in, c)]

\* df.resample(rule).agg(agg_cols): one row per bin from the first sample's
\* bin to the last sample's bin, left-closed and left-labelled
Resample(rows, cols, resample_min) ==
    LET w == resample_min * MinuteTicks
        origin == ResampleOrigin(rows)
        lo == origin + ((rows[1].ts_utc - origin) \div w) * w
        hi == origin + ((rows[Len(rows)].ts_utc - origin) \div w) * w
        n == (hi - lo) \div w + 1
    IN  [k \in 1..n |-> AggRow(rows, cols, lo + (k - 1) * w, w)]

KeepAllRows(rows, cols) == rows

\* dropna(how="all"): drop the rows whose every column is null
dropna_all(rows, cols) ==
    SelectSeq(rows, LAMBDA r : \E c \in cols \ {"ts_utc"} : ~IsNull(c, r[c]))

filter_and_resample(d, site_id, start_dt, end_dt, resample_min) ==
    LET kept == FilterRows(d, site_id, start_dt, end_dt)
    IN  IF kept = <<>> THEN [cols |-> d.cols, rows |-> <<>>]
        ELSE [cols |-> d.cols,
              rows |-> dropna_all(Resample(sort_values(kept), d.cols, resample_min),
                                  d.cols)]

---------------------------------------------------------------------------
(* The summary metrics, lines 172-205 *)

fillna0(v) == IF v = NaN THEN RZero ELSE v

\* df.get(col, pd.Series(dtype=float)): the column, or an empty series
df_get(d, c) ==
    IF c \in d.cols THEN [i \in 1..Len(d.rows) |-> d.rows[i][c]] ELSE <<>>

dt_hours_of(resample_min) == Norm(resample_min, 60)

DcPowerDerived(d) ==
    IF "dc_power" \notin d.cols /\ {"dc_voltage", "dc_current"} \subseteq d.cols
    THEN [i \in 1..Len(d.rows) |->
            fillna0(IF d.rows[i]["dc_voltage"] = NaN \/ d.rows[i]["dc_current"] = NaN
                    THEN NaN
                    ELSE RMul(d.rows[i]["dc_voltage"], d.rows[i]["dc_current"]))]
    ELSE LET col == df_get(d, "dc_power")
         IN  [i \in 1..Len(col) |-> fillna0(col[i])]

\* dc_power = df.get("dc_power", pd.Series(dtype=float)).fillna(0.0)
dc_power_of(d) ==
    LET col == df_get(d, "dc_power")
    IN  [i \in 1..Len(col) |-> fillna0(col[i])]

\* irradiance = df.get("irradiance_wm2", pd.Series(dtype=float)).fillna(0.0)
irradiance_of(d) ==
    LET col == df_get(d, "irradiance_wm2")
    IN  [i \in 1..Len(col) |-> fillna0(col[i])]

\* daily_energy_wh = float((dc_power * dt_hours).sum())
daily_energy_wh_of(dc_power, resample_min) ==
    SeqSum([i \in 1..Len(dc_power) |-> RMul(dc_power[i], dt_hours_of(resample_min))])

\* peak_power = float(dc_power.max()) if not dc_power.empty else 0.0
peak_power_of(dc_power) == IF dc_power # <<>> THEN SeqMax(dc_power) ELSE RZero

\* ref_energy_wh = float((irradiance * panel_area * module_eff * dt_hours).sum())
ref_energy_wh_of(irradiance, panel_area, module_eff, resample_min) ==
    SeqSum([i \in 1..Len(irradiance) |->
              RMul(RMul(RMul(irradiance[i], panel_area), module_eff),
                   dt_hours_of(resample_min))])

PrTrackerZeroDefault(energy, ref) ==
    IF RGt(ref, RZero) THEN RDiv(energy, ref) ELSE RZero

\* lines 190-193
pr_tracker_of(energy, ref) ==
    IF RGt(ref, RZero) THEN RDiv(energy, ref) ELSE NaN

FixedEnergyNoBaseline(ref, fixed_pr_baseline) ==
    IF RGt(ref, RZero) THEN ref ELSE NaN

\* lines 196-199
fixed_energy_wh_of(ref, fixed_pr_baseline) ==
    IF RGt(ref, RZero) THEN RMul(ref, fixed_pr_baseline) ELSE NaN

\* Python truth value of a float: nan is true, 0.0 is false
Truthy(x) == x # RZero

\* lines 202-205
tracker_gain_pct_of(energy, fixed) ==
    IF Truthy(fixed) /\ RGt(fixed, RZero)
    THEN RMul(RDiv(RSub(energy, fixed), fixed), R(100))
    ELSE NaN

ComputeMetrics(d, c) ==
    LET dc_power == dc_power_of(d)
        irradiance == irradiance_of(d)
        energy == daily_energy_wh_of(dc_power, c.resample_min)
        ref == ref_energy_wh_of(irradiance, c.panel_area, c.module_eff,
                                c.resample_min)
        fixed == fixed_energy_wh_of(ref, c.fixed_pr_baseline)
    IN  [dc_power |-> dc_power,
         daily_energy_wh |-> energy,
         peak_power |-> peak_power_of(dc_power),
         ref_energy_wh |-> ref,
         pr_tracker |-> pr_tracker_of(energy, ref),
         fixed_energy_wh |-> fixed,
         tracker_gain_pct |-> tracker_gain_pct_of(energy, fixed)]

\* a widget showing f"{x:.<digits>f}" when x is finite, "N/A" otherwise
MetricOrNA(x, digits) ==
    IF isfinite(x) THEN FormatFixed(x, digits) ELSE NotAvailable

\* the st.metric widgets of lines 209-230
ShowMetrics(m, c) ==
    [col1 |-> FormatFixed(m.daily_energy_wh, 2),
     col2 |-> MetricOrNA(m.fixed_energy_wh, 2),
     col3 |-> MetricOrNA(m.tracker_gain_pct, 1),
     col4 |-> FormatFixed(m.peak_power, 2),
     col5 |-> MetricOrNA(m.pr_tracker, 2),
     col6 |-> FormatFixed(c.fixed_pr_baseline, 2),
     col7 |-> FormatFixed(m.ref_energy_wh, 2)]

---------------------------------------------------------------------------
(* The sources a run may find behind DB_OR_CSV.  A source is               *)
(* [available, cols, rows]; every source that loads has at least one data  *)
(* column beside its timestamp column.                                     *)

SeqsUpTo(S, n) == UNION {[1..k -> S] : k \in 0..n}

SourcesOver(cols, rowset) ==
    {[available |-> TRUE, cols |-> cols, rows |-> rs] : rs \in SeqsUpTo(rowset, MaxRows)}

\* sample instants: on day 0 00:00, 00:03, the instant of datetime.max.time()
\* and the last tick; 00:03 of every later day; the instant of
\* datetime.max.time() on the last day
SampleInstants ==
    {0, 3 * MinuteTicks, DayTicks - TicksPerMicro, DayTicks - 1}
    \cup {d * DayTicks + 3 * MinuteTicks : d \in 1..MaxDay}
    \cup {(MaxDay + 1) * DayTicks - TicksPerMicro}

\* several sites over several days: site A at every sample instant, site B at
\* the first and the last of them
SiteSources ==
    SourcesOver({"ts_utc", "site_id", "dc_power"},
        {[ts_utc |-> t, site_id |-> "A", dc_power |-> R(100)] : t \in SampleInstants}
        \cup {[ts_utc |-> t, site_id |-> "B", dc_power |-> R(100)] :
                t \in {0, (MaxDay + 1) * DayTicks - 1}})

\* power and irradiance readings, some of them missing, on day 0
PowerSources ==
    SourcesOver({"ts_utc", "dc_power", "irradiance_wm2"},
        {[ts_utc |-> t, dc_power |-> p, irradiance_wm2 |-> g] :
            t \in {0, 3 * MinuteTicks, 65 * MinuteTicks},
            p \in {NaN, R(100), R(200)},
            g \in {NaN, R(1000)}})

\* no dc_power column, voltage and current present
VoltageCurrentSources ==
    SourcesOver({"ts_utc", "dc_voltage", "dc_current", "irradiance_wm2"},
        {[ts_utc |-> t, dc_voltage |-> R(10), dc_current |-> R(2), irradiance_wm2 |-> g] :
            t \in {0, 3 * MinuteTicks}, g \in {NaN, R(1000)}})

\* dc_power null or non-positive in every row, voltage and current present
NullPowerSources ==
    SourcesOver({"ts_utc", "dc_power", "dc_voltage", "dc_current"},
        {[ts_utc |-> t, dc_power |-> p, dc_voltage |-> R(10), dc_current |-> R(2)] :
            t \in {0, 3 * MinuteTicks}, p \in {NaN, R(0), R(-50)}})

\* no dc_power column at all; a site column with a missing value;
\* "not-a-date" timestamps (NaT); irradiance zero or negative
IrradianceSources ==
    SourcesOver({"ts_utc", "site_id", "irradiance_wm2"},
        {[ts_utc |-> t, site_id |-> s, irradiance_wm2 |-> g] :
            t \in {0, NaT}, s \in {"A", NoneStr}, g \in {R(0), R(-1000)}})

\* the timestamp column under another name, or missing
AliasSources ==
    {[available |-> TRUE, cols |-> {"ts", "dc_power"},
      rows |-> <<[ts |-> 0, dc_power |-> R(100)]>>],
     [available |-> TRUE, cols |-> {"timestamp", "dc_power"},
      rows |-> <<[timestamp |-> 0, dc_power |-> R(100)]>>],
     [available |-> TRUE, cols |-> {"time", "dc_power"},
      rows |-> <<[time |-> 0, dc_power |-> R(100)]>>],
     [available |-> TRUE, cols |-> {"dc_power"},
      rows |-> <<[dc_power |-> R(100)]>>]}

\* a path that cannot be read
UnavailableSources == {[available |-> FALSE, cols |-> {}, rows |-> <<>>]}

---------------------------------------------------------------------------
(* The sidebar, lines 93-155 *)

SiteInputs == {"KMUTT-PROTOTYPE"}
ResampleOptions == {1, 5, 10, 15, 30, 60}
PanelAreas == {R(1)}
ModuleEffs == {Norm(1, 5)}
Baselines == {Norm(4, 5), Norm(1, 2)}

NoCfg == [site |-> "", start_date |-> 0, end_date |-> 0, resample_min |-> 0,
          panel_area |-> NaN, module_eff |-> NaN, fixed_pr_baseline |-> NaN]

NoMetrics == [dc_power |-> <<>>, daily_energy_wh |-> NaN, peak_power |-> NaN,
              ref_energy_wh |-> NaN, pr_tracker |-> NaN, fixed_energy_wh |-> NaN,
              tracker_gain_pct |-> NaN]

NoWidgets == [col1 |-> NotAvailable, col2 |-> NotAvailable, col3 |-> NotAvailable,
              col4 |-> NotAvailable, col5 |-> NotAvailable, col6 |-> NotAvailable,
              col7 |-> NotAvailable]

date_of(t) == t \div DayTicks

\* datetime.combine(start_date, datetime.min.time())
start_dt_of(start_date) == start_date * DayTicks

\* datetime.combine(end_date, datetime.max.time()): 23:59:59.999999
end_dt_of(end_date) == end_date * DayTicks + DayTicks - TicksPerMicro

\* the options of the site selectbox, or the free-text site
SiteChoices(d) ==
    IF "site_id" \in d.cols THEN {d.rows[i].site_id : i \in 1..Len(d.rows)}
    ELSE SiteInputs

min_date_of(d) ==
    CHOOSE x \in {date_of(d.rows[i].ts_utc) : i \in 1..Len(d.rows)} :
        \A i \in 1..Len(d.rows) : x <= date_of(d.rows[i].ts_utc)

max_date_of(d) ==
    CHOOSE x \in {date_of(d.rows[i].ts_utc) : i \in 1..Len(d.rows)} :
        \A i \in 1..Len(d.rows) : x >= date_of(d.rows[i].ts_utc)

RawEmpty(d) == d.rows = <<>>

ResultNeverEmpty(d) == FALSE

\* df.empty of line 166
ResultEmpty(d) == d.rows = <<>>

---------------------------------------------------------------------------
(* The run *)

Init ==
    /\ \/ source \in SiteSources
       \/ source \in PowerSources
       \/ source \in VoltageCurrentSources
       \/ source \in NullPowerSources
       \/ source \in IrradianceSources
       \/ source \in AliasSources
       \/ source \in UnavailableSources
    /\ pc = "start"
    /\ df_raw = EmptyFrame
    /\ cfg = NoCfg
    /\ df = EmptyFrame
    /\ metrics = NoMetrics
    /\ widgets = NoWidgets
    /\ message = ""

\* lines 101-105: load_all_data raises; st.error, st.stop
LoadFails ==
    /\ pc = "start"
    /\ ~load_all_data(source).ok
    /\ pc' = "stopped"
    /\ message' = load_all_data(source).error
    /\ UNCHANGED <<source, df_raw, cfg, df, metrics, widgets>>

\* line 102: df_raw = load_all_data(DB_OR_CSV)
Load ==
    /\ pc = "start"
    /\ load_all_data(source).ok
    /\ df_raw' = load_all_data(source).df
    /\ pc' = "loaded"
    /\ UNCHANGED <<source, cfg, df, metrics, widgets, message>>

\* lines 107-109: st.warning, st.stop
StopNoData ==
    /\ pc = "loaded"
    /\ RawEmpty(df_raw)
    /\ pc' = "stopped"
    /\ message' = "no data in source"
    /\ UNCHANGED <<source, df_raw, cfg, df, metrics, widgets>>

\* lines 112-155: the operator's selections; a start date after the end date
\* stops the run at line 130
Sidebar ==
    /\ pc = "loaded"
    /\ ~RawEmpty(df_raw)
    /\ \E site \in SiteChoices(df_raw),
          start_date \in min_date_of(df_raw)..max_date_of(df_raw),
          end_date \in min_date_of(df_raw)..max_date_of(df_raw) :
          IF start_date > end_date
          THEN /\ cfg' = [NoCfg EXCEPT !.site = site, !.start_date = start_date,
                                       !.end_date = end_date]
               /\ pc' = "stopped"
               /\ message' = "start date after end date"
          ELSE /\ \E resample_min \in ResampleOptions, panel_area \in PanelAreas,
                     module_eff \in ModuleEffs, fixed_pr_baseline \in Baselines :
                     cfg' = [site |-> site, start_date |-> start_date,
                             end_date |-> end_date, resample_min |-> resample_min,
                             panel_area |-> panel_area, module_eff |-> module_eff,
                             fixed_pr_baseline |-> fixed_pr_baseline]
               /\ pc' = "configured"
               /\ message' = message
    /\ UNCHANGED <<source, df_raw, df, metrics, widgets>>

\* lines 159-168: filter_and_resample, then the empty-result guard
FilterAndResample ==
    /\ pc = "configured"
    /\ df' = filter_and_resample(df_raw, cfg.site, start_dt_of(cfg.start_date),
                                 end_dt_of(cfg.end_date), cfg.resample_min)
    /\ IF ResultEmpty(df')
       THEN pc' = "stopped" /\ message' = "no data in selection"
       ELSE pc' = "resampled" /\ message' = message
    /\ UNCHANGED <<source, df_raw, cfg, metrics, widgets>>

\* lines 172-234: compute the metrics and show the widgets
Metrics ==
    /\ pc = "resampled"
    /\ metrics' = ComputeMetrics(df, cfg)
    /\ widgets' = ShowMetrics(metrics', cfg)
    /\ pc' = "metrics"
    /\ UNCHANGED <<source, df_raw, cfg, df, message>>

Next ==
    \/ LoadFails
    \/ Load
    \/ StopNoData
    \/ Sidebar
    \/ FilterAndResample
    \/ Metrics

Spec == Init /\ [][Next]_vars

---------------------------------------------------------------------------
(* Properties *)

\* the run has produced a non-empty resampled frame
Resampled == pc \in {"resampled", "metrics"}

\* filter_and_resample has run
Filtered == Resampled \/ (pc = "stopped" /\ message = "no data in selection")

BucketWidth == cfg.resample_min * MinuteTicks

\* the rows of df_raw that pass the site and time filter of the run
KeptRows == FilterRows(df_raw, cfg.site, start_dt_of(cfg.start_date),
                       end_dt_of(cfg.end_date))

\* C1: the bucket timestamps of the resampled frame are strictly increasing
\* and each is a multiple of the cadence counted from midnight UTC of day 0,
\* whatever the first sample's timestamp is.
C1_BucketsIncreasingAndAligned ==
    Resampled =>
        \A i \in 1..Len(df.rows) :
            /\ df.rows[i].ts_utc % BucketWidth = 0
            /\ i > 1 => df.rows[i - 1].ts_utc < df.rows[i].ts_utc

\* several buckets, from samples that are off the grid, on a later day
C1_Witness ==
    /\ Resampled
    /\ Len(df.rows) >= 2
    /\ df.rows[1].ts_utc >= DayTicks
    /\ \E k \in 1..Len(KeptRows) : KeptRows[k].ts_utc % BucketWidth # 0

\* C2: every bucket of the resampled frame holds at least one row that
\* passed the site and time filter, with its timestamp in
\* [bucket_start, bucket_start + cadence).
C2_EveryBucketHasASample ==
    Resampled =>
        \A i \in 1..Len(df.rows) :
            \E k \in 1..Len(KeptRows) :
                /\ KeptRows[k].ts_utc >= df.rows[i].ts_utc
                /\ KeptRows[k].ts_utc < df.rows[i].ts_utc + BucketWidth

\* two buckets with empty intervals between them
C2_Witness ==
    /\ Resampled
    /\ Len(df.rows) = 2
    /\ df.rows[2].ts_utc - df.rows[1].ts_utc > BucketWidth

\* C3: performance_ratio is energy_wh / reference_energy_wh only when the
\* reference energy is strictly positive; otherwise nothing is divided and
\* the widget shows "N/A".
C3_PerformanceRatioGuarded ==
    pc = "metrics" =>
        IF RGt(metrics.ref_energy_wh, RZero)
        THEN /\ metrics.pr_tracker
                  = RDiv(metrics.daily_energy_wh, metrics.ref_energy_wh)
             /\ widgets.col5 = FormatFixed(metrics.pr_tracker, 2)
        ELSE /\ metrics.pr_tracker = NaN
             /\ widgets.col5 = NotAvailable

\* energy was produced and the reference energy is zero or negative
C3_Witness ==
    /\ pc = "metrics"
    /\ ~RGt(metrics.ref_energy_wh, RZero)
    /\ RGt(metrics.daily_energy_wh, RZero)
    /\ widgets.col5 = NotAvailable

\* the dc_power values present in the buckets
PresentBucketPower ==
    IF "dc_power" \in df.cols
    THEN {df.rows[i]["dc_power"] : i \in 1..Len(df.rows)} \ {NaN}
    ELSE {}

\* C4: the peak-power widget shows the maximum of dc_power over the buckets
\* that have a value, and "not available" when no bucket has one.
C4_PeakPowerOrNotAvailable ==
    pc = "metrics" =>
        widgets.col4 =
            IF PresentBucketPower = {} THEN NotAvailable
            ELSE FormatFixed(
                    CHOOSE x \in PresentBucketPower :
                        \A y \in PresentBucketPower : ~RGt(y, x), 2)

\* the mean of the non-missing dc_power values of the filtered samples in
\* the bucket starting at b, taken as 0 when there is none
C5_BucketPower(b) ==
    LET in == SelectSeq(KeptRows,
                        LAMBDA r : r.ts_utc >= b /\ r.ts_utc < b + BucketWidth)
        idx == IF "dc_power" \in df_raw.cols
               THEN {k \in 1..Len(in) : in[k]["dc_power"] # NaN} ELSE {}
        num == [k \in 1..Len(in) |->
                  IF k \in idx THEN in[k]["dc_power"] ELSE RZero]
    IN  IF idx = {} THEN RZero ELSE RDiv(SeqSum(num), R(Cardinality(idx)))

\* the scenario: 100 W at 00:00 and 200 W at 00:03, 5-minute cadence
C5_Scenario ==
    /\ "dc_power" \in df_raw.cols
    /\ Len(df_raw.rows) = 2
    /\ df_raw.rows[1].ts_utc = 0 /\ df_raw.rows[1]["dc_power"] = R(100)
    /\ df_raw.rows[2].ts_utc = 3 * MinuteTicks /\ df_raw.rows[2]["dc_power"] = R(200)
    /\ cfg.resample_min = 5

\* C5: energy_wh is the sum over the output buckets of the bucket's mean
\* dc_power (0 when missing) times cadence_minutes/60; samples of 100 W at
\* 00:00 and 200 W at 00:03 at a 5-minute cadence give one bucket at 00:00
\* with dc_power 150 and energy_wh 12.5.
C5_EnergyIsRectangularSum ==
    pc = "metrics" =>
        /\ metrics.daily_energy_wh =
              SeqSum([i \in 1..Len(df.rows) |->
                        RMul(C5_BucketPower(df.rows[i].ts_utc),
                             Norm(cfg.resample_min, 60))])
        /\ C5_Scenario =>
              /\ Len(df.rows) = 1
              /\ df.rows[1].ts_utc = 0
              /\ df.rows[1]["dc_power"] = R(150)
              /\ metrics.daily_energy_wh = Norm(25, 2)

\* the scenario has run to the metrics
C5_Witness ==
    /\ pc = "metrics"
    /\ C5_Scenario
    /\ metrics.daily_energy_wh = Norm(25, 2)

\* C6: a row of the selected site is kept if and only if its timestamp lies
\* on a day from start_date to end_date: every instant of end_date is kept.
C6_WholeEndDayKept ==
    Filtered =>
        \A j \in 1..Len(df_raw.rows) :
            SiteMatches(df_raw, df_raw.rows[j], cfg.site) =>
                ((\E k \in 1..Len(KeptRows) : KeptRows[k] = df_raw.rows[j])
                 <=> (/\ cfg.start_date <= date_of(df_raw.rows[j].ts_utc)
                      /\ date_of(df_raw.rows[j].ts_utc) <= cfg.end_date))

\* the four conditions under which a run reaches the metrics
C7_RunIsGood ==
    /\ load_all_data(source).ok
    /\ df_raw.rows # <<>>
    /\ cfg.start_date <= cfg.end_date
    /\ df.rows # <<>>

\* C7: the metrics are reached and shown only when the source loaded, the
\* loaded set is non-empty, start_date <= end_date and the resampled set is
\* non-empty; every other run stops with a message, shows no metric and
\* takes no further step.  Filtering by a site that matches no row gives an
\* empty frame.
C7_MetricsOnlyOnGoodRun ==
    /\ pc \in {"resampled", "metrics"} => C7_RunIsGood /\ message = ""
    /\ widgets # NoWidgets => pc = "metrics"
    /\ pc = "stopped" =>
          /\ message # ""
          /\ widgets = NoWidgets /\ metrics = NoMetrics
          /\ ~C7_RunIsGood
          /\ ~ENABLED Next
    /\ (pc \notin {"start", "stopped"} /\ "site_id" \in df_raw.cols) =>
          filter_and_resample(df_raw, "no-such-site", 0,
                              end_dt_of(MaxDay), 5).rows = <<>>

\* rows were loaded and the selection left none of them
C7_Witness ==
    /\ pc = "stopped"
    /\ message = "no data in selection"
    /\ df_raw.rows # <<>>
    /\ df.rows = <<>>

\* C8 as claimed: loading fails with the schema error if and only if none of
\* ts_utc, ts, timestamp, time is a column of the source.
C8_AnyAliasAccepted ==
    (pc # "start" /\ source.available) =>
        ((pc = "stopped" /\ message = "ValueError: ts_utc")
         <=> source.cols \cap {"ts_utc", "ts", "timestamp", "time"} = {})

\* C8: loading fails with the schema error if and only if the source has no
\* column named ts_utc; ts, timestamp and time are not accepted in its place.
C8_OnlyTsUtcAccepted ==
    (pc # "start" /\ source.available) =>
        /\ (pc = "stopped" /\ message = "ValueError: ts_utc")
              <=> "ts_utc" \notin source.cols
        /\ "ts_utc" \in source.cols => df_raw.cols = source.cols

\* a source whose timestamp column is named ts has been refused
C8_Witness ==
    /\ pc = "stopped"
    /\ message = "ValueError: ts_utc"
    /\ "ts" \in source.cols

\* dc_power is missing from the loaded set, or null or non-positive in every
\* row, while dc_voltage and dc_current are there
C9_NoUsablePower ==
    /\ {"dc_voltage", "dc_current"} \subseteq df_raw.cols
    /\ "dc_power" \in df_raw.cols =>
          \A i \in 1..Len(df_raw.rows) : ~RGt(df_raw.rows[i]["dc_power"], RZero)

\* C9 as claimed: in that case the set the metrics are computed from carries
\* dc_power = dc_voltage * dc_current in every row.
C9_PowerDerivedFromVoltageCurrent ==
    (pc = "metrics" /\ C9_NoUsablePower) =>
        /\ "dc_power" \in df_raw.cols
        /\ \A i \in 1..Len(df_raw.rows) :
              df_raw.rows[i]["dc_power"]
                  = RMul(df_raw.rows[i]["dc_voltage"], df_raw.rows[i]["dc_current"])

\* C9: dc_power is read from its own column only; with dc_voltage and
\* dc_current present and dc_power absent the power series is empty and
\* energy_wh is 0, and with dc_power null or non-positive in every row
\* energy_wh is not positive.
C9_PowerOnlyFromItsColumn ==
    (pc = "metrics" /\ C9_NoUsablePower) =>
        /\ ~RGt(metrics.daily_energy_wh, RZero)
        /\ "dc_power" \notin df_raw.cols =>
              metrics.dc_power = <<>> /\ metrics.daily_energy_wh = RZero

\* 10 V and 2 A in every row, no dc_power column, metrics shown
C9_Witness ==
    /\ pc = "metrics"
    /\ "dc_power" \notin df_raw.cols
    /\ Len(df_raw.rows) = 2
    /\ \A i \in 1..Len(df_raw.rows) :
          df_raw.rows[i]["dc_voltage"] = R(10) /\ df_raw.rows[i]["dc_current"] = R(2)
    /\ widgets.col1 = FormatFixed(RZero, 2)

\* C10: when the performance ratio is available the gain widget shows
\* (performance_ratio - fixed_pr_baseline) / fixed_pr_baseline * 100, and
\* when it is not available the gain widget shows "N/A" too.
C10_TrackerGainFromPerformanceRatio ==
    pc = "metrics" =>
        IF RGt(metrics.ref_energy_wh, RZero)
        THEN widgets.col3 =
                FormatFixed(
                    RMul(RDiv(RSub(RDiv(metrics.daily_energy_wh,
                                        metrics.ref_energy_wh),
                                   cfg.fixed_pr_baseline),
                              cfg.fixed_pr_baseline),
                         R(100)), 1)
        ELSE widgets.col3 = NotAvailable

\* a performance ratio other than the baseline, and a gain shown
C10_Witness ==
    /\ pc = "metrics"
    /\ RGt(metrics.ref_energy_wh, RZero)
    /\ RGt(metrics.daily_energy_wh, RZero)
    /\ ~widgets.col3.na
    /\ widgets.col3.scaled # 0

=============================================================================
